---- MODULE Spec2Model ----
(***************************************************************************)
(* Model of the resilient backend-invocation layer and of the session      *)
(* normalisation of diegofornalha/chat-app-sdk.                            *)
(*                                                                         *)
(*  Part I  (specification Spec): src/backend/error_handlers.py            *)
(*          (retry_on_failure, circuit_breaker) and the improved app       *)
(*          src/backend/app_improved.py that stacks them around            *)
(*          call_claude_code_sdk.                                          *)
(*  Part II (specification SpecChat): src/mesop-chat/app.py, the           *)
(*          normaliser (ensure_chatsession, dict_to_chat_session,          *)
(*          normalize_sessions), State.validate_sessions and the handlers  *)
(*          handle_new_chat, load_session, handle_send_message.            *)
(*  Part III (specification SpecMain): src/mesop-chat/main_new.py, the     *)
(*          handlers of its page and call_claude.                          *)
(***************************************************************************)
EXTENDS Integers, Sequences, FiniteSets, TLC

\* ------------------------------------------------------------------ bounds

\* largest max_retries a decorated test operation is given
MaxRetries == 2
\* largest failure_threshold a decorated test operation is given
MaxThreshold == 3
\* largest recovery_timeout (in clock ticks) a decorated test operation is given
MaxTimeout == 2
\* the clock stops advancing here
MaxTime == 5
\* most sends the improved app accepts in one run of the model
MaxSends == 2
\* most sessions the improved app creates in one run of the model
MaxSessions == 2
\* stored sessions past which handle_new_chat is no longer explored
MaxStored == 2
\* sends the chat page accepts in one run
MaxChatSends == 1
\* sends main_new.py's page accepts in one run
MaxMainSends == 2
\* stored sessions past which main_new.py's handle_new_chat is no longer explored
MaxMainStored == 2

\* ------------------------------------------------- Part I : state variables

VARIABLES
    cfg,                \* which decorated operation is exercised
    max_retries,        \* retry_on_failure(max_retries=...)
    failure_threshold,  \* circuit_breaker(failure_threshold=...)
    recovery_timeout,   \* circuit_breaker(recovery_timeout=...)
    now,                \* time.time()
    pc,                 \* program point of the (single-threaded) call in progress
    attempt,            \* retry wrapper: loop variable
    current_delay,      \* retry wrapper: current_delay
    last_exception,     \* retry wrapper: last_exception
    failures,           \* breaker: func._failures
    last_failure_time,  \* breaker: func._last_failure_time
    circuit_open,       \* breaker: func._circuit_open
    res,                \* value or exception travelling up the call stack
    outcome,            \* what the caller of the decorated operation received
    obs                 \* observations of the logical call in progress (history)

\* the improved app's State (src/backend/app_improved.py:42-65) and its tasks
VARIABLES
    input_text,                 \* State.input_text
    is_loading,                 \* State.is_loading
    error_message,              \* State.error_message
    current_session_id,         \* State.current_session_id (0 is "")
    current_session_title,      \* State.current_session_title
    current_session_messages,   \* State.current_session_messages (decoded)
    sessions,                   \* State.sessions (decoded): id -> session dict
    tasks,                      \* the asyncio tasks handle_send_message created
    running,                    \* index in tasks of the task that holds the thread, or 0
    sends                       \* number of sends accepted so far

\* the State of the Mesop page (app.py:155-171) and the send in progress
VARIABLES
    m_current_session,   \* State.current_session
    m_sessions,          \* State.sessions: key -> stored value
    m_input_text,        \* State.input_text
    m_is_loading,        \* State.is_loading
    m_error_message,     \* State.error_message
    m_use_claude_sdk,    \* State.use_claude_sdk
    m_processing_steps,  \* State.processing_steps
    m_pc,                \* "idle", or "calling" while handle_send_message waits for the backend
    m_prompt,            \* handle_send_message's local prompt
    m_sends,             \* number of sends accepted so far
    m_run,               \* what the backend did in the last send that called it
    m_backend,           \* the pending backend call: "none", "responds" or "silent"
    m_sent,              \* the last accepted send: what the session was before it, the prompt and the adapter
    m_last               \* the last handler that worked on the sessions, and how it ended

chatVars == <<m_current_session, m_sessions, m_input_text, m_is_loading,
              m_error_message, m_use_claude_sdk, m_processing_steps, m_pc,
              m_prompt, m_sends, m_sent, m_run, m_backend, m_last>>

\* the AppState of src/mesop-chat/main_new.py and its send in progress
VARIABLES
    CLAUDE_SDK_AVAILABLE,  \* main_new.py:60-65  the SDK could be imported
    ANTHROPIC_AVAILABLE,   \* main_new.py:54-59  the anthropic package could be imported
    mn_current_session,    \* AppState.current_session: [id, title, messages]
    mn_sessions,           \* AppState.sessions
    mn_input_text,         \* AppState.input_text
    mn_is_loading,         \* AppState.is_loading
    mn_error_message,      \* AppState.error_message
    mn_pc,                 \* "idle", or "yielded" while handle_send is suspended at its yield
    mn_prompt,             \* handle_send's local prompt
    mn_sends,              \* number of sends so far
    mn_call                \* what call_claude did in the last send

mainVars == <<CLAUDE_SDK_AVAILABLE, ANTHROPIC_AVAILABLE, mn_current_session,
              mn_sessions, mn_input_text, mn_is_loading, mn_error_message,
              mn_pc, mn_prompt, mn_sends, mn_call>>

appVars == <<input_text, is_loading, error_message, current_session_id,
             current_session_title, current_session_messages, sessions,
             tasks, running, sends>>

resVars == <<cfg, max_retries, failure_threshold, recovery_timeout, now, pc,
             attempt, current_delay, last_exception, failures,
             last_failure_time, circuit_open, res, outcome, obs>>

\* ------------------------------------------------------- Part I : values

\* func._last_failure_time = None
NoTime == -1

\* retry_on_failure(delay=1.0)
RetryDelay == 1
\* retry_on_failure(backoff=2.0)
RetryBackoff == 2

\* the improved app's decorator parameters
ImprovedMaxRetries == 3
ImprovedThreshold == 5
ImprovedTimeout == 60

\* the failures a wrapped test operation can raise (all are Exception instances)
ErrTags == {"e1", "e2"}

NoExc == [type |-> "None", tag |-> "-"]
OpError(t) == [type |-> "OpError", tag |-> t]
\* raise ChatAppError(..., code="CIRCUIT_BREAKER_OPEN")
BreakerOpenError == [type |-> "ChatAppError", tag |-> "CIRCUIT_BREAKER_OPEN"]
\* raise ClaudeAPIError(f"Failed to call Claude: ...")
ClaudeAPIError == [type |-> "ClaudeAPIError", tag |-> "CLAUDE_API_ERROR"]

NoRes == [kind |-> "none", exc |-> NoExc]
Value == [kind |-> "value", exc |-> NoExc]
Coroutine == [kind |-> "coro", exc |-> NoExc]
Raised(e) == [kind |-> "exc", exc |-> e]

\* the decorator stacks: outermost first.  "retry" and "breaker" are a plain
\* blocking operation under one decorator; "improved" is
\* ChatApplication.call_claude_code_sdk: @retry_on_failure is written above
\* @circuit_breaker, so the retry wrapper wraps the breaker wrapper.
Stack(c) ==
    CASE c = "retry"    -> <<"retry", "func">>
      [] c = "breaker"  -> <<"breaker", "func">>
      [] c = "improved" -> <<"retry", "breaker", "func">>

\* call_claude_code_sdk is "async def": calling it only builds a coroutine
OpIsAsync(c) == c = "improved"

\* ------------------------------------------------- code conditions (helpers)

\* the loop written as range(max_retries): one attempt too few
HasMoreAttempts_OffByOne(a, n) == a < n - 1

\* error_handlers.py:160  if attempt < max_retries
HasMoreAttempts(a, n) == a < n

\* the threshold compared with > instead of >=
ShouldOpen_Strict(f, th) == f > th

\* error_handlers.py:274  if func._failures >= failure_threshold
ShouldOpen(f, th) == f >= th

\* a success that leaves the count of failures as it was
FailuresAfterSuccess_Kept(f) == f

\* error_handlers.py:267-268  result = func(...); func._failures = 0
FailuresAfterSuccess(f) == 0

\* a recovery check that never finds the timeout elapsed
RecoveryElapsed_Never(t, lft, rt) == FALSE

\* the elapsed time computed with its operands swapped
RecoveryElapsed_Swapped(t, lft, rt) == lft # NoTime /\ lft # 0 /\ (lft - t) > rt

\* error_handlers.py:255-256
\*   func._last_failure_time and (time.time() - func._last_failure_time) > recovery_timeout
RecoveryElapsed(t, lft, rt) == lft # NoTime /\ lft # 0 /\ (t - lft) > rt

\* ------------------------------------------------------------ text values

\* a text is known by what it says and by its length in characters
Text(i, n) == [id |-> i, len |-> n, cut |-> FALSE]
EmptyText == Text("", 0)
\* the prompts a user types: a short one and one of more than 50 characters
Prompts == {Text("hello", 5), Text("long question", 60)}
\* the texts the backend replies with; a stream without text yields ""
Replies == {Text("hi there", 8), EmptyText}
DefaultTitle == Text("Nova Conversa", 13)

\* app_improved.py:656  message[:50] + ("..." if len(message) > 50 else "")
TitleLimit == 50
TitleOf(m) ==
    IF m.len > TitleLimit THEN [id |-> m.id, len |-> TitleLimit + 3, cut |-> TRUE] ELSE m

\* validators.py:24-28  MessageValidator.__post_init__ accepts the content
ContentLimit == 10000
ValidContent(c) == c.len > 0 /\ c.len <= ContentLimit

Msg(r, c) == [role |-> r, content |-> c]

\* validators.py:41-49  MessageValidator.to_dict: the dict it builds has the keys
\* content, user_id, session_id, timestamp, metadata, and no role ("-")
ValidatedDict(m) == Msg("-", m.content)

\* app_improved.py:86-103  set_messages_list: each message goes through
\* MessageValidator; one that raises ValueError is skipped
RECURSIVE set_messages_list(_)
set_messages_list(ms) ==
    IF ms = <<>> THEN <<>>
    ELSE (IF ValidContent(Head(ms).content) THEN <<ValidatedDict(Head(ms))>> ELSE <<>>)
         \o set_messages_list(Tail(ms))

RemoveAt(seq, i) == [j \in 1..(Len(seq) - 1) |-> IF j < i THEN seq[j] ELSE seq[j + 1]]

\* ---------------------------------------------------------- call routing

Position(c, layer) == CHOOSE i \in 1..Len(Stack(c)) : Stack(c)[i] = layer

\* the callable a wrapper invokes as "func(*args, **kwargs)"
Inner(c, layer) == Stack(c)[Position(c, layer) + 1]

\* who called a layer: the wrapper around it, or the caller of the decorated name
Outer(c, layer) ==
    IF Position(c, layer) = 1 THEN "caller" ELSE Stack(c)[Position(c, layer) - 1]

EntryPc(layer) ==
    CASE layer = "retry"   -> "r_start"
      [] layer = "breaker" -> "b_check"
      [] layer = "func"    -> "f_call"

ReturnPc(layer) ==
    CASE layer = "retry"   -> "r_after"
      [] layer = "breaker" -> "b_after"
      [] layer = "caller"  -> "done"

\* a return or a raise out of `layer` with result r
ReturnFrom(layer, r) ==
    LET to == Outer(cfg, layer) IN
    IF to = "caller"
    THEN pc' = "done" /\ outcome' = r /\ res' = NoRes
    ELSE pc' = ReturnPc(to) /\ res' = r /\ UNCHANGED outcome

\* the count of consecutive failures is observed up to one past the largest threshold
Saturate(n) == IF n > MaxThreshold + 1 THEN MaxThreshold + 1 ELSE n

\* observations of one logical call, reset when the caller invokes
FreshCall ==
    [funcCalls |-> 0, checks |-> 0, rejections |-> 0, backendCalls |-> 0,
     chkOpen |-> FALSE, chkNow |-> 0, chkLft |-> NoTime, probe |-> FALSE,
     lastRaised |-> NoExc, allRaised |-> TRUE,
     retryActive |-> FALSE, breakerActive |-> FALSE, retryInBreaker |-> TRUE]

ParamVars == <<cfg, max_retries, failure_threshold, recovery_timeout>>
RetryLocals == <<attempt, current_delay, last_exception>>
BreakerAttrs == <<failures, last_failure_time, circuit_open>>

\* ---------------------------------------------------------------- Init

\* decorator(func): func._failures = 0; func._last_failure_time = None;
\* func._circuit_open = False
ResInit ==
    /\ cfg \in {"retry", "breaker", "improved"}
    \* a decorator that is not applied keeps its parameter at the value the
    \* improved app uses; it is never read
    /\ max_retries \in IF cfg = "retry" THEN 0..MaxRetries ELSE {ImprovedMaxRetries}
    /\ failure_threshold \in IF cfg = "breaker" THEN 1..MaxThreshold ELSE {ImprovedThreshold}
    /\ recovery_timeout \in IF cfg = "breaker" THEN 1..MaxTimeout ELSE {ImprovedTimeout}
    /\ now = 1
    /\ pc = "idle"
    /\ attempt = 0
    /\ current_delay = RetryDelay
    /\ last_exception = NoExc
    /\ failures = 0
    /\ last_failure_time = NoTime
    /\ circuit_open = FALSE
    /\ res = NoRes
    /\ outcome = NoRes
    /\ obs = [call |-> FreshCall, consec |-> 0, probed |-> FALSE, openedAt |-> NoTime,
              openedAtCheck |-> NoTime, failedQueries |-> 0]

\* app_improved.py:42-65  the State defaults
AppInit ==
    /\ input_text = EmptyText
    /\ is_loading = FALSE
    /\ error_message = ""
    /\ current_session_id = 0
    /\ current_session_title = DefaultTitle
    /\ current_session_messages = <<>>
    /\ sessions = <<>>
    /\ tasks = <<>>
    /\ running = 0
    /\ sends = 0

\* ------------------------------------------------------------- actions

\* the clock advances (time.time() is read at lines 256 and 272).  The code
\* only ever reads the time elapsed since a recorded failure, so the clock is
\* left at its start until a failure has been recorded.
Tick ==
    /\ now < MaxTime
    /\ last_failure_time # NoTime
    /\ now' = now + 1
    /\ UNCHANGED <<mainVars, chatVars, appVars, ParamVars, pc, RetryLocals, BreakerAttrs, res, outcome, obs>>

\* a caller invokes the decorated name
CallerInvokes ==
    /\ cfg # "improved"
    /\ pc \in {"idle", "done"}
    /\ pc' = EntryPc(Stack(cfg)[1])
    /\ res' = NoRes
    /\ outcome' = NoRes
    /\ obs' = [obs EXCEPT !.call = FreshCall]
    /\ UNCHANGED <<mainVars, chatVars, appVars, ParamVars, now, RetryLocals, BreakerAttrs>>

\* retry wrapper, lines 150-152: current_delay = delay; last_exception = None;
\* the for loop starts at attempt 0
RetryStart ==
    /\ pc = "r_start"
    /\ current_delay' = RetryDelay
    /\ last_exception' = NoExc
    /\ attempt' = 0
    /\ pc' = "r_try"
    /\ obs' = [obs EXCEPT !.call.retryActive = TRUE,
                          !.call.retryInBreaker = obs.call.breakerActive]
    /\ UNCHANGED <<mainVars, chatVars, appVars, ParamVars, now, BreakerAttrs, res, outcome>>

\* retry wrapper, line 156: return func(*args, **kwargs)
RetryTry ==
    /\ pc = "r_try"
    /\ pc' = EntryPc(Inner(cfg, "retry"))
    /\ UNCHANGED <<mainVars, chatVars, appVars, ParamVars, now, RetryLocals, BreakerAttrs, res, outcome, obs>>

\* retry wrapper, lines 156-173: what func returned or raised
RetryAfter ==
    /\ pc = "r_after"
    /\ IF res.kind # "exc"
       THEN /\ ReturnFrom("retry", res)
            /\ obs' = [obs EXCEPT !.call.retryActive = FALSE]
            /\ UNCHANGED RetryLocals
       ELSE /\ last_exception' = res.exc
            /\ IF HasMoreAttempts(attempt, max_retries)
               THEN /\ pc' = "r_sleep"
                    /\ res' = NoRes
                    /\ UNCHANGED <<outcome, attempt, current_delay, obs>>
               ELSE \* the loop is over: if last_exception: raise last_exception
                    /\ ReturnFrom("retry", Raised(res.exc))
                    /\ obs' = [obs EXCEPT !.call.retryActive = FALSE]
                    /\ UNCHANGED <<attempt, current_delay>>
    /\ UNCHANGED <<mainVars, chatVars, appVars, ParamVars, now, BreakerAttrs>>

\* retry wrapper, lines 165-166: time.sleep(current_delay); current_delay *= backoff
RetrySleep ==
    /\ pc = "r_sleep"
    /\ current_delay' = current_delay * RetryBackoff
    /\ attempt' = attempt + 1
    /\ pc' = "r_try"
    /\ UNCHANGED <<mainVars, chatVars, appVars, ParamVars, now, last_exception, BreakerAttrs, res, outcome, obs>>

\* breaker wrapper, lines 254-264: the open check
BreakerCheck ==
    /\ pc = "b_check"
    /\ LET seen == [obs EXCEPT !.call.checks = @ + 1,
                               !.call.chkOpen = circuit_open,
                               !.call.chkNow = now,
                               !.call.chkLft = last_failure_time,
                               !.call.breakerActive = TRUE,
                               !.openedAtCheck = obs.openedAt] IN
       IF circuit_open
       THEN IF RecoveryElapsed(now, last_failure_time, recovery_timeout)
            THEN /\ circuit_open' = FALSE
                 /\ failures' = 0
                 /\ pc' = EntryPc(Inner(cfg, "breaker"))
                 /\ obs' = [seen EXCEPT !.call.probe = TRUE, !.probed = TRUE]
                 /\ UNCHANGED <<last_failure_time, res, outcome>>
            ELSE /\ ReturnFrom("breaker", Raised(BreakerOpenError))
                 /\ obs' = [seen EXCEPT !.call.rejections = @ + 1,
                                        !.call.breakerActive = FALSE]
                 /\ UNCHANGED BreakerAttrs
       ELSE /\ pc' = EntryPc(Inner(cfg, "breaker"))
            /\ obs' = seen
            /\ UNCHANGED <<BreakerAttrs, res, outcome>>
    /\ UNCHANGED <<mainVars, chatVars, appVars, ParamVars, now, RetryLocals>>

\* breaker wrapper, lines 266-280: what func returned or raised
BreakerAfter ==
    /\ pc = "b_after"
    /\ IF res.kind # "exc"
       THEN /\ failures' = FailuresAfterSuccess(failures)
            /\ UNCHANGED <<last_failure_time, circuit_open>>
       ELSE /\ failures' = failures + 1
            /\ last_failure_time' = now
            /\ circuit_open' = (circuit_open \/ ShouldOpen(failures + 1, failure_threshold))
    /\ ReturnFrom("breaker", res)
    /\ obs' = [obs EXCEPT !.call.breakerActive = FALSE,
                          !.openedAt = IF ~circuit_open /\ circuit_open' THEN now ELSE @]
    /\ UNCHANGED <<mainVars, chatVars, appVars, ParamVars, now, RetryLocals>>

\* the wrapped operation is called.  A blocking operation returns or raises;
\* an "async def" only builds its coroutine, which nothing has run yet.
FuncCall ==
    /\ pc = "f_call"
    /\ \E r \in IF OpIsAsync(cfg) THEN {Coroutine}
                ELSE {Value} \cup {Raised(OpError(t)) : t \in ErrTags} :
         /\ ReturnFrom("func", r)
         /\ obs' = [obs EXCEPT
                !.call.funcCalls = @ + 1,
                !.call.lastRaised = IF r.kind = "exc" THEN r.exc ELSE @,
                !.call.allRaised = @ /\ r.kind = "exc",
                !.consec = IF r.kind = "exc" THEN Saturate(@ + 1) ELSE 0,
                !.probed = IF r.kind = "exc" THEN @ ELSE FALSE]
    /\ UNCHANGED <<mainVars, chatVars, appVars, ParamVars, now, RetryLocals, BreakerAttrs>>

ResNext ==
    \/ Tick
    \/ CallerInvokes
    \/ RetryStart
    \/ RetryTry
    \/ RetryAfter
    \/ RetrySleep
    \/ BreakerCheck
    \/ BreakerAfter
    \/ FuncCall

\* ------------------------------------------- the improved app's handlers

Idle == running = 0 /\ pc \in {"idle", "done"}

\* app_improved.py:549  on_blur sets input_text to what the user typed
UpdateInput ==
    /\ cfg = "improved" /\ Idle
    /\ \E p \in Prompts : input_text' = p
    /\ UNCHANGED <<mainVars, chatVars, resVars, is_loading, error_message, current_session_id,
                   current_session_title, current_session_messages, sessions,
                   tasks, running, sends>>

\* app_improved.py:119-136  set_sessions_dict: SessionValidator keeps a session
\* whose id and title are not empty
set_sessions_dict(ss) == ss

\* app_improved.py:589-607  create_new_session: the new session is current and
\* is stored with no messages
NewSessionId == Len(sessions) + 1
WithNewSession == Append(sessions, [title |-> DefaultTitle, messages |-> <<>>])

CreateNewSession ==
    /\ cfg = "improved" /\ Idle
    /\ Len(sessions) < MaxSessions
    /\ current_session_id' = NewSessionId
    /\ current_session_title' = DefaultTitle
    /\ current_session_messages' = <<>>
    /\ sessions' = set_sessions_dict(WithNewSession)
    /\ UNCHANGED <<mainVars, chatVars, resVars, input_text, is_loading, error_message, tasks, running, sends>>

\* app_improved.py:610-620  load_session
LoadSession ==
    /\ cfg = "improved" /\ Idle
    /\ \E id \in 1..Len(sessions) :
         /\ current_session_id' = id
         /\ current_session_title' = sessions[id].title
         /\ current_session_messages' = sessions[id].messages
    /\ UNCHANGED <<mainVars, chatVars, resVars, input_text, is_loading, error_message, sessions,
                   tasks, running, sends>>

\* app_improved.py:623-641  handle_send_message: returns at once on a blank
\* input; otherwise it creates the session if there is none, sets the loading
\* flag, clears the error and creates the task.  It does not read is_loading.
SendRejected == input_text.len = 0

HandleSendMessage ==
    /\ cfg = "improved" /\ Idle
    /\ sends < MaxSends
    /\ IF SendRejected
       THEN UNCHANGED <<appVars>>
       ELSE /\ IF current_session_id = 0
               THEN /\ current_session_id' = NewSessionId
                    /\ current_session_title' = DefaultTitle
                    /\ current_session_messages' = <<>>
                    /\ sessions' = set_sessions_dict(WithNewSession)
               ELSE UNCHANGED <<current_session_id, current_session_title,
                                current_session_messages, sessions>>
            /\ input_text' = EmptyText
            /\ is_loading' = TRUE
            /\ error_message' = ""
            /\ tasks' = Append(tasks, [prompt |-> input_text, st |-> "created", local |-> <<>>])
            /\ sends' = sends + 1
            /\ UNCHANGED running
    /\ UNCHANGED <<mainVars, chatVars, resVars>>

\* app_improved.py:259-267  what process_message returns for an exception
\* raised in its try block: one text per except clause
process_message_reports(e) ==
    CASE e.type = "ValidationError" -> "Erro de validação"
      [] e.type = "ClaudeAPIError"  -> "Desculpe, ocorreu um erro ao processar sua mensagem"
      [] OTHER                      -> "Ocorreu um erro inesperado"

\* process_message_async, 653-669, once process_message has returned: the title
\* is set while the stored list has at most two messages; the loading flag is
\* cleared in the finally clause; the task is over
FinishTask(i, msgs) ==
    /\ IF Len(msgs) <= 2
       THEN /\ current_session_title' = TitleOf(tasks[i].prompt)
            /\ IF current_session_id \in 1..Len(sessions)
               THEN sessions' = set_sessions_dict(
                        [sessions EXCEPT ![current_session_id].title = TitleOf(tasks[i].prompt)])
               ELSE UNCHANGED sessions
       ELSE UNCHANGED <<current_session_title, sessions>>
    /\ is_loading' = FALSE
    /\ tasks' = RemoveAt(tasks, i)
    /\ running' = 0

\* a task starts: process_message_async -> process_message, lines 209-236, up to
\* the call of the decorated self.call_claude_code_sdk(...)
TaskStart ==
    /\ cfg = "improved" /\ Idle
    /\ \E i \in 1..Len(tasks) :
         /\ tasks[i].st = "created"
         /\ LET local == Append(current_session_messages, Msg("user", tasks[i].prompt)) IN
            IF ValidContent(tasks[i].prompt)
            THEN /\ current_session_messages' = set_messages_list(local)
                 /\ tasks' = [tasks EXCEPT ![i].st = "calling", ![i].local = local]
                 /\ running' = i
                 /\ pc' = EntryPc(Stack(cfg)[1])
                 /\ res' = NoRes
                 /\ outcome' = NoRes
                 /\ obs' = [obs EXCEPT !.call = FreshCall]
                 /\ UNCHANGED <<is_loading, current_session_title, sessions>>
            ELSE \* MessageValidator raised ValueError: "except Exception" answers
                 /\ FinishTask(i, current_session_messages)
                 /\ UNCHANGED <<current_session_messages, pc, res, outcome, obs>>
    /\ UNCHANGED <<mainVars, chatVars, ParamVars, now, RetryLocals, BreakerAttrs, input_text,
                   error_message, current_session_id, sends>>

\* the decorated call is over.  When it returned the coroutine, process_message
\* awaits it: call_claude_code_sdk's body runs to "async for message in
\* query(...)", where the task is suspended.  When it raised (lines 259-267),
\* the error is answered with a text and the task ends.
AwaitBackend ==
    /\ cfg = "improved" /\ running # 0 /\ pc = "done"
    /\ IF outcome = Coroutine
       THEN /\ tasks' = [tasks EXCEPT ![running].st = "awaiting"]
            /\ running' = 0
            /\ obs' = [obs EXCEPT !.call.backendCalls = @ + 1]
            /\ UNCHANGED <<is_loading, current_session_title, sessions>>
       ELSE /\ FinishTask(running, current_session_messages)
            /\ UNCHANGED obs
    /\ UNCHANGED <<mainVars, chatVars, ParamVars, now, pc, RetryLocals, BreakerAttrs, res, outcome,
                   input_text, error_message, current_session_id,
                   current_session_messages, sends>>

\* the backend answers a suspended task.  On success (lines 190, 242-257) the
\* assistant message is appended to the task's own list, which is stored; on
\* failure (lines 192-197, 262-264) ClaudeAPIError is answered with a text.
QueryResolves ==
    /\ cfg = "improved" /\ Idle
    /\ \E i \in 1..Len(tasks) :
         /\ tasks[i].st = "awaiting"
         /\ \/ \E r \in Replies :
                 LET local == Append(tasks[i].local, Msg("assistant", r)) IN
                 /\ current_session_messages' = set_messages_list(local)
                 /\ FinishTask(i, set_messages_list(local))
                 /\ UNCHANGED obs
            \/ /\ FinishTask(i, current_session_messages)
               /\ UNCHANGED current_session_messages
               /\ obs' = [obs EXCEPT !.failedQueries = @ + 1]
    /\ UNCHANGED <<mainVars, chatVars, ParamVars, now, pc, RetryLocals, BreakerAttrs, res, outcome,
                   input_text, error_message, current_session_id, sends>>

AppNext ==
    \/ UpdateInput
    \/ CreateNewSession
    \/ LoadSession
    \/ HandleSendMessage
    \/ TaskStart
    \/ AwaitBackend
    \/ QueryResolves


\* ===================================================================
\* Part II : src/mesop-chat/app.py
\* ===================================================================

\* ------------------------------------------------------------- values

\* the ids and keys the client can send; ids made by uuid.uuid4() are others
ClientIds == {1, 2}

\* a timestamp field holds an ISO string ("str"), a native datetime ("dt"),
\* a value of another type ("bad"), or the key is missing from the dict ("absent")
TsKinds == {"str", "dt", "bad", "absent"}

AbsentText == [id |-> "<absent>", len |-> 0, cut |-> FALSE]

\* a message: a Message instance ("obj"), a dict ("dict") or anything else ("other")
MsgValue(k, r, c, ts, ip) ==
    [k |-> k, role |-> r, content |-> c, ts |-> ts, in_progress |-> ip]

\* Message(role=..., content=..., in_progress=...): timestamp by default_factory
Message(r, c, ip) == MsgValue("obj", r, c, "str", ip)

\* a session value: a ChatSession instance ("obj", with the identity oid of the
\* object), a dict ("dict") or anything else ("other").  mshape tells what the
\* messages field holds: a list, nothing (key absent), None, or a string.
SessionValue(k, oid, id, title, mshape, msgs, ca, la, csid) ==
    [k |-> k, oid |-> oid, id |-> id, title |-> title, mshape |-> mshape,
     messages |-> msgs, created_at |-> ca, last_activity |-> la,
     claude_session_id |-> csid]

OtherValue == SessionValue("other", 0, 0, AbsentText, "absent", <<>>, "absent", "absent", 0)

\* app.py:77-87  create_new_session: a ChatSession with a new uuid
create_new_session(id, oid) ==
    SessionValue("obj", oid, id, DefaultTitle, "list", <<>>, "str", "str", 0)

Min(S) == CHOOSE x \in S : \A y \in S : x <= y

Values(f) == {f[x] : x \in DOMAIN f}

\* the ids and object identities in use in a state st = [cs, store, steps]
UsedIds(st) ==
    ClientIds \cup {st.cs.id} \cup DOMAIN st.store \cup {v.id : v \in Values(st.store)}
UsedOids(st) == {st.cs.oid} \cup {v.oid : v \in Values(st.store)}
\* str(uuid.uuid4()): an id no session of the state has
FreshId(st) == Min({n \in 1..(Cardinality(UsedIds(st)) + 1) : n \notin UsedIds(st)})
FreshOid(st) == Min({n \in 1..(Cardinality(UsedOids(st)) + 1) : n \notin UsedOids(st)})

\* ---------------------------------------------------------- the normaliser

\* app.py:127-151  a str is kept, a datetime becomes .isoformat(), anything
\* else becomes datetime.now().isoformat()
ConvertTimestamp(ts) ==
    CASE ts = "str" -> "str"
      [] ts = "dt"  -> "str"
      [] OTHER      -> "str"

\* app.py:113-134  one element of messages_data: a Message instance is appended
\* as it is, a dict becomes a new Message, anything else is left out
ConvertMessage(m) ==
    IF m.k = "obj" THEN <<m>>
    ELSE IF m.k = "dict"
    THEN <<MsgValue("obj", m.role, m.content,
                    IF m.ts = "absent" THEN "str" ELSE ConvertTimestamp(m.ts),
                    m.in_progress)>>
    ELSE <<>>

RECURSIVE ConvertMessages(_)
ConvertMessages(ms) ==
    IF ms = <<>> THEN <<>> ELSE ConvertMessage(Head(ms)) \o ConvertMessages(Tail(ms))

\* app.py:111-113  "for msg in messages_data" raises TypeError when the
\* messages field holds None
DictRaises(d) == d.mshape = "none"

\* app.py:95-153  dict_to_chat_session, for a dict whose messages can be iterated
dict_to_chat_session(d, fid, foid) ==
    SessionValue("obj", foid,
        IF d.id = 0 THEN fid ELSE d.id,
        IF d.title = AbsentText THEN DefaultTitle ELSE d.title,
        "list",
        IF d.mshape = "list" THEN ConvertMessages(d.messages) ELSE <<>>,
        IF d.created_at = "absent" THEN "str" ELSE ConvertTimestamp(d.created_at),
        IF d.last_activity = "absent" THEN "str" ELSE ConvertTimestamp(d.last_activity),
        d.claude_session_id)

\* an ensure_chatsession that builds a new session for a ChatSession too
ensure_chatsession_Renew(v, fid, foid) ==
    IF v.k = "dict" /\ ~DictRaises(v)
    THEN [raised |-> FALSE, val |-> dict_to_chat_session(v, fid, foid)]
    ELSE [raised |-> v.k = "dict", val |-> create_new_session(fid, foid)]

\* app.py:60-68  ensure_chatsession: [raised, val]
ensure_chatsession(v, fid, foid) ==
    IF v.k = "obj" THEN [raised |-> FALSE, val |-> v]
    ELSE IF v.k = "dict"
    THEN IF DictRaises(v) THEN [raised |-> TRUE, val |-> v]
         ELSE [raised |-> FALSE, val |-> dict_to_chat_session(v, fid, foid)]
    ELSE [raised |-> FALSE, val |-> create_new_session(fid, foid)]

\* app.py:70-75  normalize_sessions: every value through ensure_chatsession,
\* under its own key.  keys is what is left to do, st the state with the
\* values done so far.
RECURSIVE normalize_sessions(_, _)
normalize_sessions(st, keys) ==
    IF keys = {} THEN [raised |-> FALSE, st |-> st]
    ELSE LET key == Min(keys)
             r == ensure_chatsession(st.store[key], FreshId(st), FreshOid(st)) IN
         IF r.raised THEN [raised |-> TRUE, st |-> st]
         ELSE normalize_sessions([st EXCEPT !.store[key] = r.val], keys \ {key})

\* app.py:186-198  a step stored as a dict is rebuilt with
\* ProcessingStep(step=..., status=..., timestamp=...), which are not fields of
\* ProcessingStep: TypeError
StepsRaise(steps) == \E i \in 1..Len(steps) : steps[i] = "dict"

WithKey(store, key, v) == [x \in DOMAIN store \cup {key} |-> IF x = key THEN v ELSE store[x]]

\* app.py:200-208  at least one session, and the current one is in the dict
EnsureRegistered(st) ==
    LET a == IF DOMAIN st.store = {}
             THEN LET initial_session == create_new_session(FreshId(st), FreshOid(st)) IN
                  [st EXCEPT !.store = WithKey(st.store, initial_session.id, initial_session),
                             !.cs = initial_session]
             ELSE st IN
    IF a.cs.id \notin DOMAIN a.store
    THEN [a EXCEPT !.store = WithKey(a.store, a.cs.id, a.cs)]
    ELSE a

\* app.py:173-208  State.validate_sessions on st = [cs, store, steps]:
\* [raised, st].  What was assigned before an exception stays assigned.
validate_sessions(st) ==
    LET r1 == ensure_chatsession(st.cs, FreshId(st), FreshOid(st)) IN
    IF r1.raised THEN [raised |-> TRUE, st |-> st]
    ELSE LET s1 == [st EXCEPT !.cs = r1.val]
             r2 == normalize_sessions(s1, DOMAIN s1.store) IN
         IF r2.raised THEN [raised |-> TRUE, st |-> s1]
         ELSE IF StepsRaise(st.steps) THEN [raised |-> TRUE, st |-> r2.st]
         ELSE [raised |-> FALSE, st |-> EnsureRegistered(r2.st)]

\* ---------------------------------------------------------- the page's state

EmptyStore == [x \in {} |-> OtherValue]

St(cs, store, steps) == [cs |-> cs, store |-> store, steps |-> steps]

Current == St(m_current_session, m_sessions, m_processing_steps)

Last(op, arg, raised) == [op |-> op, arg |-> arg, raised |-> raised]

\* no backend was called
NoRun == [events |-> <<>>, raises |-> "-"]

\* an accepted send: the number of messages and the title of the current
\* session before it, the prompt, state.use_claude_sdk, and the
\* claude_session_id process_message_async reads from the session (app.py:1252)
Sent(n, title, prompt, sdk, session_id) ==
    [n |-> n, title |-> title, prompt |-> prompt, sdk |-> sdk, session_id |-> session_id]

\* app.py:155-171  State(): a new current session, no stored session
ChatDefault ==
    /\ m_current_session = create_new_session(3, 1)
    /\ m_sessions = EmptyStore
    /\ m_input_text = EmptyText
    /\ m_is_loading = FALSE
    /\ m_error_message = ""
    /\ m_use_claude_sdk = TRUE
    /\ m_processing_steps = <<>>
    /\ m_pc = "idle"
    /\ m_prompt = EmptyText
    /\ m_sends = 0
    /\ m_sent = Sent(0, DefaultTitle, EmptyText, TRUE, 0)
    /\ m_run = NoRun
    /\ m_backend = "none"
    /\ m_last = Last("init", "", FALSE)

\* what current_session or sessions[key] can hold when the state comes back
\* from the client: the fields are typed Any (app.py:157-161)
StoredMessages ==
    <<MsgValue("dict", "user", Text("hello", 5), "str", FALSE),
      MsgValue("dict", "assistant", Text("hi there", 8), "absent", FALSE)>>

\* a long conversation: eleven exchanges
RECURSIVE Repeated(_, _)
Repeated(ms, n) == IF n = 0 THEN <<>> ELSE ms \o Repeated(ms, n - 1)
LongExchanges == 11
LongHistory == Repeated(StoredMessages, LongExchanges)

ClientValues(key, oid) ==
    { SessionValue("dict", 0, key, DefaultTitle, "list", <<>>, "str", "str", 0),
      SessionValue("dict", 0, key, Text("hello", 5), "list", StoredMessages, "str", "str", 0),
      SessionValue("dict", 0, 0, AbsentText, "absent", <<>>, "absent", "absent", 0),
      SessionValue("dict", 0, 3 - key, Text("hello", 5), "list", <<>>, "dt", "bad", 0),
      SessionValue("dict", 0, key, DefaultTitle, "none", <<>>, "str", "str", 0),
      SessionValue("dict", 0, key, DefaultTitle, "str", <<>>, "str", "str", 0),
      SessionValue("dict", 0, key, DefaultTitle, "list",
                   <<MsgValue("obj", "user", Text("hello", 5), "dt", FALSE),
                     MsgValue("other", "", EmptyText, "absent", FALSE)>>, "str", "str", 0),
      SessionValue("obj", oid, key, DefaultTitle, "list", <<>>, "dt", "str", 0),
      OtherValue }

\* the stores the client sends: none, one key, or two keys of which the
\* second holds a well-formed dict
ClientStores ==
    {EmptyStore}
    \cup {WithKey(EmptyStore, 1, v) : v \in ClientValues(1, 2)}
    \cup {WithKey(WithKey(EmptyStore, 1, v), 2,
                  SessionValue("dict", 0, 2, DefaultTitle, "list", <<>>, "str", "str", 0)) :
            v \in ClientValues(1, 2)}

\* a processing step: a ProcessingStep instance or a dict
ClientSteps == {<<>>, <<"obj">>, <<"dict">>}

\* the states the client sends: any current session with no store, a
\* well-formed current session with any store, and any processing steps
ClientStates ==
    LET plain == SessionValue("dict", 0, 1, DefaultTitle, "list", <<>>, "str", "str", 0)
        used == SessionValue("dict", 0, 1, Text("hello", 5), "list", StoredMessages, "str", "str", 0)
        \* a session whose earlier exchange came with a session id
        resumed == SessionValue("dict", 0, 1, Text("hello", 5), "list", StoredMessages, "str", "str", 7)
        long == SessionValue("dict", 0, 1, Text("hello", 5), "list", LongHistory, "str", "str", 0) IN
    {St(cs, EmptyStore, <<>>) : cs \in ClientValues(1, 1)}
    \cup {St(cs, store, <<>>) : cs \in {plain, used}, store \in ClientStores}
    \cup {St(plain, WithKey(EmptyStore, 1, plain), steps) : steps \in ClientSteps}
    \cup {St(resumed, WithKey(EmptyStore, 1, resumed), <<>>)}
    \cup {St(long, WithKey(EmptyStore, 1, long), <<>>)}

\* app.py:155-171  the state of the page as the client sends it back when the
\* page is loaded; the handlers that follow work on the server's copy of it
ReceiveState ==
    /\ m_pc = "idle"
    /\ m_last.op = "init"
    /\ \E st \in ClientStates :
        /\ m_current_session' = st.cs
        /\ m_sessions' = st.store
        /\ m_processing_steps' = st.steps
        /\ m_last' = Last("receive", "", FALSE)
    /\ UNCHANGED <<mainVars, resVars, appVars, m_input_text, m_is_loading, m_error_message,
                   m_use_claude_sdk, m_pc, m_prompt, m_sends, m_sent, m_run, m_backend>>

Assign(st) ==
    /\ m_current_session' = st.cs
    /\ m_sessions' = st.store
    /\ m_processing_steps' = st.steps

\* app.py:210-223  validate_state_before_render: validate_sessions, after which
\* there is a current session and a stored one
validate_state_before_render ==
    /\ m_pc = "idle"
    /\ LET v == validate_sessions(Current) IN
        /\ Assign(v.st)
        /\ m_last' = Last("validate_sessions", "", v.raised)
    /\ UNCHANGED <<mainVars, resVars, appVars, m_input_text, m_is_loading, m_error_message,
                   m_use_claude_sdk, m_pc, m_prompt, m_sends, m_sent, m_run, m_backend>>

\* app.py:1064-1073  handle_new_chat's except branch
NewChatRecovery(st) == [st EXCEPT !.cs = create_new_session(FreshId(st), FreshOid(st))]

\* app.py:1036-1062  handle_new_chat's try block from the new session on
NewChatBody(st) ==
    LET new_session == create_new_session(FreshId(st), FreshOid(st)) IN
    validate_sessions(St(new_session, WithKey(st.store, new_session.id, new_session), <<>>))

\* app.py:1030-1073  handle_new_chat
handle_new_chat ==
    /\ m_pc = "idle"
    /\ Cardinality(DOMAIN m_sessions) < MaxStored
    /\ LET v1 == validate_sessions(Current)
           v2 == IF v1.raised THEN v1 ELSE NewChatBody(v1.st) IN
        /\ IF v2.raised
           THEN /\ Assign(NewChatRecovery(v2.st))
                /\ m_error_message' = "Erro ao criar nova sessão"
                /\ m_input_text' = IF v1.raised THEN m_input_text ELSE EmptyText
           ELSE /\ Assign(v2.st)
                /\ m_error_message' = ""
                /\ m_input_text' = EmptyText
        /\ m_last' = Last("handle_new_chat", "", v2.raised)
    /\ UNCHANGED <<mainVars, resVars, appVars, m_is_loading, m_use_claude_sdk, m_pc, m_prompt, m_sends, m_sent, m_run, m_backend>>

\* app.py:1075-1092  load_session
load_session ==
    /\ m_pc = "idle"
    /\ \E session_id \in DOMAIN m_sessions \cup ClientIds :
        LET v == validate_sessions(Current) IN
        /\ IF ~v.raised /\ session_id \in DOMAIN v.st.store
           THEN /\ Assign([v.st EXCEPT !.cs = v.st.store[session_id], !.steps = <<>>])
                /\ m_error_message' = ""
           ELSE /\ Assign(v.st)
                /\ UNCHANGED m_error_message
        /\ m_last' = Last("load_session", "", v.raised)
    /\ UNCHANGED <<mainVars, resVars, appVars, m_input_text, m_is_loading, m_use_claude_sdk,
                   m_pc, m_prompt, m_sends, m_sent, m_run, m_backend>>

\* app.py:1094-1097  update_input
Inputs == Prompts \cup {Text("   ", 3)}

update_input ==
    /\ m_pc = "idle"
    /\ m_sends < MaxChatSends
    /\ \E value \in Inputs : m_input_text' = value
    /\ UNCHANGED <<mainVars, resVars, appVars, m_current_session, m_sessions, m_is_loading,
                   m_error_message, m_use_claude_sdk, m_processing_steps, m_pc,
                   m_prompt, m_sends, m_sent, m_run, m_backend, m_last>>

\* app.py:1025-1028  toggle_mode
toggle_mode ==
    /\ m_pc = "idle"
    /\ m_use_claude_sdk' = ~m_use_claude_sdk
    /\ UNCHANGED <<mainVars, resVars, appVars, m_current_session, m_sessions, m_input_text,
                   m_is_loading, m_error_message, m_processing_steps, m_pc,
                   m_prompt, m_sends, m_sent, m_run, m_backend, m_last>>

\* ------------------------------------------------------------ the backends

\* a message of the SDK's stream: an object or a dict, with the attributes
\* call_claude_code_sdk reads
Event(shape, subtype, type, is_error, result, session_id) ==
    [shape |-> shape, subtype |-> subtype, type |-> type, is_error |-> is_error,
     result |-> result, session_id |-> session_id, usage |-> 0, input_tokens |-> 0]

\* the message with usage = {'input_tokens': n}: the count nested one level
WithUsage(message, n) == [message EXCEPT !.usage = n]
\* the message with input_tokens = n as a field of its own
WithTokens(message, n) == [message EXCEPT !.input_tokens = n]

\* what query() does in one call: the messages it yields and the text of the
\* exception it ends with ("" when it ends normally)
Run(events, raises) == [events |-> events, raises |-> raises]

SdkRuns ==
    { Run(<<Event("obj", "", "assistant", FALSE, EmptyText, 0),
            WithUsage(Event("obj", "success", "result", FALSE, Text("hi there", 8), 7), 5)>>, ""),
      Run(<<WithTokens(Event("dict", "", "result", FALSE, Text("hi there", 8), 0), 5)>>, ""),
      Run(<<Event("obj", "", "result", TRUE, EmptyText, 0)>>, ""),
      Run(<<Event("dict", "", "result", TRUE, EmptyText, 0)>>, ""),
      Run(<<>>, ""),
      Run(<<Event("obj", "", "assistant", FALSE, EmptyText, 0)>>, "exit code 1") }

\* what messages.create does: one reply, or an exception
ApiRuns ==
    { Run(<<Event("obj", "", "message", FALSE, Text("hi there", 8), 0)>>, ""),
      Run(<<>>, "overloaded") }

Reply(text, is_error, session_id) ==
    [text |-> text, is_error |-> is_error, session_id |-> session_id, input_tokens |-> 0]

\* app.py:232-243  what call_claude_code_sdk(prompt, session_id) hands to
\* query(): the prompt and ClaudeCodeOptions(max_turns=3, system_prompt=None);
\* resume is the option of that class that names the exchange to continue,
\* 0 for None
query_options(prompt, session_id) ==
    [prompt |-> prompt, max_turns |-> 3, system_prompt |-> 0, resume |-> 0]

\* app.py:246-300  one message of the stream: response_text and metadata after it
SdkStep(acc, message) ==
    LET success == [Reply(message.result, FALSE, message.session_id)
                       EXCEPT !.input_tokens = message.input_tokens]
        nested == [success EXCEPT !.input_tokens = message.usage]
        failure == [acc EXCEPT !.text = Text("Erro: error", 11), !.is_error = TRUE] IN
    IF message.shape = "obj"
    THEN IF message.subtype = "success" THEN nested
         ELSE IF message.type = "result"
              THEN IF ~message.is_error THEN success ELSE failure
              ELSE acc
    ELSE IF message.shape = "dict" /\ message.type = "result"
         THEN IF ~message.is_error THEN success ELSE failure
         ELSE acc

RECURSIVE SdkFold(_, _)
SdkFold(acc, events) ==
    IF events = <<>> THEN acc ELSE SdkFold(SdkStep(acc, Head(events)), Tail(events))

\* app.py:225-341  call_claude_code_sdk: every exception becomes a text
call_claude_code_sdk(run) ==
    IF run.raises # ""
    THEN Reply(Text("Erro ao chamar Claude Code SDK", 30), TRUE, 0)
    ELSE LET r == SdkFold(Reply(EmptyText, FALSE, 0), run.events) IN
         IF r.text.len # 0 THEN r
         ELSE IF run.events # <<>>
              THEN [r EXCEPT !.text = Text("str(message)", 12)]
              ELSE [r EXCEPT !.text = Text("Nenhuma resposta recebida", 25)]

\* app.py:1271  the messages process_message_async hands to call_anthropic_api:
\* messages[:-2] if len(messages) > 2 else []
messages_list(cs) ==
    IF Len(cs.messages) > 2 THEN SubSeq(cs.messages, 1, Len(cs.messages) - 2) ELSE <<>>

ApiMessage(role, content) == [role |-> role, content |-> content]

\* app.py:348-361  api_messages: the messages with content, then the prompt
RECURSIVE WithContent(_)
WithContent(ms) ==
    IF ms = <<>> THEN <<>>
    ELSE (IF Head(ms).content.len > 0 THEN <<ApiMessage(Head(ms).role, Head(ms).content)>> ELSE <<>>)
         \o WithContent(Tail(ms))
api_messages(prompt, messages) == Append(WithContent(messages), ApiMessage("user", prompt))

\* app.py:343-384  call_anthropic_api: every exception becomes a text
call_anthropic_api(run) ==
    IF run.raises # "" \/ run.events = <<>>
    THEN Reply(Text("Erro ao chamar API Anthropic", 28), TRUE, 0)
    ELSE Reply(run.events[1].result, FALSE, 0)

\* ------------------------------------------------------------------ a send

\* the object new has replaced itself wherever the state holds it
SetObject(st, new) ==
    [st EXCEPT !.cs = IF st.cs.oid = new.oid THEN new ELSE st.cs,
               !.store = [k \in DOMAIN st.store |->
                            IF st.store[k].oid = new.oid THEN new ELSE st.store[k]]]

\* str.strip() leaves nothing
IsBlank(t) == t.len = 0 \/ t.id = "   "

\* app.py:1210 and 1229-1244 (1262-1267)  the steps are emptied, then a step
\* of type "inicio" and one of type "sdk" or "api" are appended before the
\* backend is called
StepsAtCall(sdk) == <<"inicio", IF sdk THEN "sdk" ELSE "api">>

\* a finally that leaves the steps of the send in the list
Finally_StepsKept(st) == st

\* app.py:1304-1306  finally: the processing steps are emptied
Finally(st) == [st EXCEPT !.steps = <<>>]

\* an append whose assistant message is not marked in progress
Appended_NotInProgress(cs, text) ==
    [cs EXCEPT !.messages = @ \o <<Message("user", text, FALSE),
                                   Message("assistant", EmptyText, FALSE)>>]

\* app.py:1189-1220  the user message with the input text, then the empty
\* assistant message that shows progress
Appended(cs, text) ==
    [cs EXCEPT !.messages = @ \o <<Message("user", text, FALSE),
                                   Message("assistant", EmptyText, TRUE)>>]

\* app.py:1176-1224 and 1226-1255  handle_send_message up to the call of the
\* backend in process_message_async
handle_send_message ==
    /\ m_pc = "idle"
    /\ m_sends < MaxChatSends
    /\ LET v == validate_sessions(Current) IN
       IF v.raised \/ IsBlank(m_input_text) \/ m_is_loading
       THEN /\ Assign(v.st)
            /\ m_last' = Last("handle_send_message", "", v.raised)
            /\ UNCHANGED <<m_input_text, m_is_loading, m_error_message, m_pc,
                           m_prompt, m_sends, m_sent, m_run, m_backend>>
       ELSE LET cs == v.st.cs
                appended == Appended(cs, m_input_text) IN
            /\ Assign([SetObject(v.st, appended) EXCEPT !.steps = StepsAtCall(m_use_claude_sdk)])
            /\ m_error_message' = ""
            /\ m_prompt' = m_input_text
            /\ m_input_text' = EmptyText
            /\ m_is_loading' = TRUE
            /\ m_pc' = "calling"
            \* whether the call about to be made ever returns is the backend's
            \* choice: nothing in 1226-1308 bounds the wait
            /\ m_backend' \in {"responds", "silent"}
            /\ m_sends' = m_sends + 1
            /\ m_sent' = Sent(Len(cs.messages), cs.title, m_input_text, m_use_claude_sdk,
                             cs.claude_session_id)
            /\ m_last' = Last("handle_send_message", "accepted", FALSE)
    /\ UNCHANGED <<mainVars, resVars, appVars, m_use_claude_sdk, m_run>>

\* a success path that writes the reply but leaves the title as it was
Answered_TitleKept(st, reply) ==
    LET cs == st.cs
        n == Len(cs.messages)
        new == [cs EXCEPT
                  !.messages[n] = [@ EXCEPT !.content = reply.text, !.in_progress = FALSE],
                  !.last_activity = "str"]
        s1 == SetObject(st, new) IN
    [s1 EXCEPT !.store = WithKey(s1.store, new.id, new)]

\* app.py:1279-1296  the reply is written into the assistant message, the
\* title is taken from the prompt and the session is saved
Answered(st, reply) ==
    LET cs == st.cs
        n == Len(cs.messages)
        new == [cs EXCEPT
                  !.messages[n] = [@ EXCEPT !.content = reply.text, !.in_progress = FALSE],
                  !.claude_session_id = IF reply.session_id # 0 THEN reply.session_id ELSE @,
                  !.last_activity = "str",
                  !.title = IF @ = DefaultTitle /\ m_prompt.len > 0
                            THEN TitleOf(m_prompt) ELSE @]
        s1 == SetObject(st, new) IN
    [s1 EXCEPT !.store = WithKey(s1.store, new.id, new)]

\* an except branch that leaves the in-progress message where it is
Failed_PlaceholderKept(st) == st

\* app.py:1298-1303  the except branch: the in-progress message is removed
Failed(st) ==
    LET cs == st.cs
        n == Len(cs.messages) IN
    IF n > 0 /\ cs.messages[n].in_progress
    THEN SetObject(st, [cs EXCEPT !.messages = SubSeq(@, 1, n - 1)])
    ELSE st

\* the stream ended normally and held a result message flagged is_error
HasErrorEvent(run) ==
    /\ run.raises = ""
    /\ \E i \in 1..Len(run.events) :
          run.events[i].type = "result" /\ run.events[i].is_error

\* app.py:1246-1308  process_message_async from the call of the backend on;
\* asyncio.new_event_loop and run_until_complete can raise in the SDK branch
process_message_async ==
    /\ m_pc = "calling"
    \* loop.run_until_complete(...) and client.messages.create(...) return
    \* only when the backend has answered or failed
    /\ m_backend = "responds"
    /\ \/ \E run \in (IF m_use_claude_sdk THEN SdkRuns ELSE ApiRuns) :
            LET reply == IF m_use_claude_sdk THEN call_claude_code_sdk(run)
                         ELSE call_anthropic_api(run) IN
            /\ Assign(Finally(Answered(Current, reply)))
            /\ UNCHANGED m_error_message
            /\ m_run' = run
            /\ m_last' = Last("process_message_async",
                              IF ~reply.is_error THEN "ok"
                              ELSE IF m_use_claude_sdk /\ HasErrorEvent(run)
                                   THEN "error_event" ELSE "backend_error", FALSE)
       \/ /\ m_use_claude_sdk
          /\ Assign(Finally(Failed(Current)))
          /\ m_error_message' = "Erro: exception"
          /\ m_run' = NoRun
          /\ m_last' = Last("process_message_async", "exception", FALSE)
    /\ m_is_loading' = FALSE
    /\ m_pc' = "idle"
    /\ m_prompt' = EmptyText
    /\ m_backend' = "none"
    /\ UNCHANGED <<mainVars, resVars, appVars, m_input_text, m_use_claude_sdk, m_sends, m_sent>>

\* ===================================================================
\* Part III : src/mesop-chat/main_new.py
\* ===================================================================

\* main_new.py:108-109  AppState.use_claude_sdk and AppState.api_key: no
\* handler assigns them
MainUseClaudeSdk == TRUE
MainApiKey == ""

MainSession(id, title, messages) == [id |-> id, title |-> title, messages |-> messages]

\* what call_claude did: the adapters it invoked, whether one of them raised,
\* and whether it reported that to handle_send by raising
Call(invoked, failed, raised) == [invoked |-> invoked, failed |-> failed, raised |-> raised]

\* main_new.py:91-109  AppState(): a ChatSession of its own, no stored session
MainDefault ==
    /\ CLAUDE_SDK_AVAILABLE \in BOOLEAN
    /\ ANTHROPIC_AVAILABLE \in BOOLEAN
    /\ mn_current_session = MainSession(1, DefaultTitle, <<>>)
    /\ mn_sessions = [x \in {} |-> MainSession(0, DefaultTitle, <<>>)]
    /\ mn_input_text = EmptyText
    /\ mn_is_loading = FALSE
    /\ mn_error_message = ""
    /\ mn_pc = "idle"
    /\ mn_prompt = EmptyText
    /\ mn_sends = 0
    /\ mn_call = Call({}, FALSE, FALSE)

\* the current session object has become new, in the store too when it is stored
MainSet(new) ==
    /\ mn_current_session' = new
    /\ mn_sessions' = [k \in DOMAIN mn_sessions |->
                          IF mn_sessions[k].id = new.id THEN new ELSE mn_sessions[k]]

\* main_new.py:494-497  handle_input
handle_input ==
    /\ mn_pc = "idle"
    /\ mn_sends < MaxMainSends
    /\ \E value \in Inputs : mn_input_text' = value
    /\ UNCHANGED <<resVars, appVars, chatVars, CLAUDE_SDK_AVAILABLE, ANTHROPIC_AVAILABLE,
                   mn_current_session, mn_sessions, mn_is_loading, mn_error_message,
                   mn_pc, mn_prompt, mn_sends, mn_call>>

\* main_new.py:521  state.input_text[:50]
MainTitleOf(t) == IF t.len > TitleLimit THEN [id |-> t.id, len |-> TitleLimit, cut |-> TRUE] ELSE t

\* main_new.py:499-531  handle_send up to its yield
handle_send ==
    /\ mn_pc = "idle"
    /\ mn_sends < MaxMainSends
    /\ ~IsBlank(mn_input_text)
    /\ LET cs == mn_current_session
           appended == [cs EXCEPT !.messages = Append(@, Msg("user", mn_input_text))]
           first == Len(appended.messages) = 1
           new == IF first THEN [appended EXCEPT !.title = MainTitleOf(mn_input_text)]
                  ELSE appended IN
        /\ mn_current_session' = new
        /\ mn_sessions' = [k \in DOMAIN mn_sessions \cup (IF first THEN {new.id} ELSE {}) |->
                              IF k = new.id /\ first THEN new
                              ELSE IF mn_sessions[k].id = new.id THEN new ELSE mn_sessions[k]]
    /\ mn_prompt' = mn_input_text
    /\ mn_input_text' = EmptyText
    /\ mn_is_loading' = TRUE
    /\ mn_error_message' = ""
    /\ mn_pc' = "yielded"
    /\ mn_sends' = mn_sends + 1
    /\ UNCHANGED <<resVars, appVars, chatVars, CLAUDE_SDK_AVAILABLE, ANTHROPIC_AVAILABLE, mn_call>>

\* what the SDK's query() and the API's messages.create do in one call_claude:
\* the text they give, or an exception
MainRuns == {[text |-> Text("hi there", 8), raises |-> FALSE],
             [text |-> EmptyText, raises |-> FALSE],
             [text |-> EmptyText, raises |-> TRUE]}

\* main_new.py:137-198  call_claude: [text, call]
call_claude(sdk, api) ==
    LET trySdk == CLAUDE_SDK_AVAILABLE /\ MainUseClaudeSdk
        tryApi == ANTHROPIC_AVAILABLE /\ MainApiKey # ""
        invoked == (IF trySdk THEN {"sdk"} ELSE {}) IN
    IF trySdk /\ ~sdk.raises
    THEN [text |-> IF sdk.text.len # 0 THEN sdk.text ELSE Text("Resposta vazia do Claude Code SDK", 33),
          call |-> Call(invoked, FALSE, FALSE)]
    ELSE IF tryApi /\ ~api.raises
    THEN [text |-> api.text, call |-> Call(invoked \cup {"api"}, trySdk, FALSE)]
    ELSE [text |-> Text("Modo Demonstração", 17),
          call |-> Call(invoked \cup (IF tryApi THEN {"api"} ELSE {}), trySdk \/ tryApi, FALSE)]

\* main_new.py:533-548  handle_send after its yield: call_claude, the reply
\* appended; asyncio.new_event_loop and run_until_complete can raise
handle_send_resume ==
    /\ mn_pc = "yielded"
    /\ \/ \E sdk \in MainRuns, api \in MainRuns :
            LET r == call_claude(sdk, api) IN
            /\ MainSet([mn_current_session EXCEPT !.messages = Append(@, Msg("assistant", r.text))])
            /\ mn_call' = r.call
            /\ UNCHANGED mn_error_message
       \/ /\ mn_error_message' = "Erro: exception"
          /\ mn_call' = Call({}, FALSE, TRUE)
          /\ UNCHANGED <<mn_current_session, mn_sessions>>
    /\ mn_is_loading' = FALSE
    /\ mn_pc' = "idle"
    /\ mn_prompt' = EmptyText
    /\ UNCHANGED <<resVars, appVars, chatVars, CLAUDE_SDK_AVAILABLE, ANTHROPIC_AVAILABLE,
                   mn_input_text, mn_sends>>

\* main_new.py:550-558  handle_new_chat
main_handle_new_chat ==
    /\ mn_pc = "idle"
    /\ Cardinality(DOMAIN mn_sessions) < MaxMainStored
    /\ LET id == Min({n \in 1..(MaxMainStored + 2) :
                        n \notin DOMAIN mn_sessions \cup {mn_current_session.id}})
           session == MainSession(id, DefaultTitle, <<>>) IN
        /\ mn_sessions' = [k \in DOMAIN mn_sessions \cup {id} |->
                              IF k = id THEN session ELSE mn_sessions[k]]
        /\ mn_current_session' = session
    /\ mn_input_text' = EmptyText
    /\ mn_error_message' = ""
    /\ UNCHANGED <<resVars, appVars, chatVars, CLAUDE_SDK_AVAILABLE, ANTHROPIC_AVAILABLE,
                   mn_is_loading, mn_pc, mn_prompt, mn_sends, mn_call>>

\* main_new.py:560-567  select_session
select_session ==
    /\ mn_pc = "idle"
    /\ \E session_id \in DOMAIN mn_sessions :
        /\ mn_current_session' = mn_sessions[session_id]
    /\ mn_input_text' = EmptyText
    /\ mn_error_message' = ""
    /\ UNCHANGED <<resVars, appVars, chatVars, CLAUDE_SDK_AVAILABLE, ANTHROPIC_AVAILABLE,
                   mn_sessions, mn_is_loading, mn_pc, mn_prompt, mn_sends, mn_call>>

MainInit == ResInit /\ cfg = "improved" /\ AppInit /\ ChatDefault /\ MainDefault

MainNext ==
    \/ handle_input
    \/ handle_send
    \/ handle_send_resume
    \/ main_handle_new_chat
    \/ select_session

ChatInit == ResInit /\ cfg = "improved" /\ AppInit /\ ChatDefault /\ MainDefault

ChatNext ==
    \/ ReceiveState
    \/ validate_state_before_render
    \/ handle_new_chat
    \/ load_session
    \/ update_input
    \/ toggle_mode
    \/ handle_send_message
    \/ process_message_async

vars == <<resVars, appVars, chatVars, mainVars>>

Init == ResInit /\ AppInit /\ ChatDefault /\ MainDefault

Next == ResNext \/ AppNext

Spec == Init /\ [][Next]_vars

SpecChat == ChatInit /\ [][ChatNext]_vars

\* The page with its scheduling: a handler that can go on does go on.  Mesop
\* resumes the generator of handle_send_message, so process_message_async runs
\* as soon as the backend lets it.
SpecChatLive == ChatInit /\ [][ChatNext]_vars /\ WF_vars(process_message_async)

SpecMain == MainInit /\ [][MainNext]_vars

\* ===================================================================
\* Claims about retry_on_failure and circuit_breaker
\* ===================================================================

\* C1: under retry_on_failure(max_retries = n), when every invocation of the
\* wrapped function raises, the function has been invoked exactly n + 1 times
\* when the caller receives the failure, and the failure received is the
\* exception the last invocation raised.
C1_RetryBound ==
    (cfg = "retry" /\ obs.call.allRaised /\ (pc = "done" \/ outcome.kind = "exc"))
        => /\ pc = "done"
           /\ obs.call.funcCalls = max_retries + 1
           /\ outcome = Raised(obs.call.lastRaised)

C1_Witness ==
    /\ cfg = "retry" /\ pc = "done" /\ max_retries = 2
    /\ obs.call.allRaised /\ obs.call.funcCalls = 3
    /\ outcome = Raised(OpError("e2"))

C3_ProbeFailureReopens ==
    (cfg = "breaker" /\ pc = "done" /\ obs.call.probe /\ outcome.kind = "exc")
        => (circuit_open /\ last_failure_time = obs.openedAt)

\* C4: a call checked while the breaker is OPEN and more than recovery_timeout
\* after it entered OPEN is let through and invokes the wrapped operation
\* exactly once.
C4_ProbeAdmitted ==
    (cfg = "breaker" /\ pc = "done" /\ obs.call.chkOpen
        /\ obs.call.chkNow - obs.openedAtCheck > recovery_timeout)
        => (obs.call.funcCalls = 1 /\ obs.call.rejections = 0 /\ obs.call.probe)

C4_Witness ==
    /\ cfg = "breaker" /\ pc = "done" /\ failure_threshold = 3
    /\ obs.call.chkOpen /\ obs.call.probe /\ obs.call.funcCalls = 1
    /\ outcome = Value

\* C5 (as claimed): around call_claude_code_sdk the circuit breaker is the outer
\* policy and retry the inner one: the retry loop runs inside one breaker
\* call, a logical call passes the breaker's open check at most once, and a
\* call the breaker rejects is neither retried nor reaches the backend.
C5_BreakerOutermost ==
    cfg = "improved" =>
      /\ obs.call.retryInBreaker
      /\ obs.call.checks <= 1
      /\ (obs.call.rejections > 0 =>
            (obs.call.funcCalls = 0 /\ obs.call.backendCalls = 0 /\ attempt = 0))

\* C6 (as claimed): no two sends are ever in flight together; a send request
\* that arrives while an earlier one has not completed is rejected.
C6_OneSendInFlight ==
    cfg = "improved" => Len(tasks) <= 1

\* ===================================================================
\* Claims about the session store of src/mesop-chat/app.py
\* ===================================================================

\* two sessions with the same fields, whether or not they are one object
SameSession(a, b) == [a EXCEPT !.oid = 0] = [b EXCEPT !.oid = 0]

CompletedStoreCall ==
    \/ m_last.op = "handle_new_chat"
    \/ m_last.op \in {"load_session", "validate_sessions"} /\ ~m_last.raised

\* C8: after every call of handle_new_chat (its error-recovery branch
\* included), load_session and validate_sessions, the id of the current
\* session is a key of the session store and the session stored under that
\* key equals the current session.
C8_CurrentIsStored ==
    CompletedStoreCall =>
        /\ m_current_session.id \in DOMAIN m_sessions
        /\ SameSession(m_sessions[m_current_session.id], m_current_session)

\* C9: validate_sessions, and with it ensure_chatsession, dict_to_chat_session
\* and normalize_sessions, never raises, whatever the shape of the current
\* session, of the stored values and of the processing steps.
C9_NormaliserNeverRaises ==
    m_last.op = "validate_sessions" => ~m_last.raised

AllTimestampsStr(v) ==
    /\ v.created_at = "str"
    /\ v.last_activity = "str"
    /\ \A i \in 1..Len(v.messages) : v.messages[i].ts = "str"

\* C10: after validate_sessions every timestamp of the current session, of
\* the stored sessions and of their messages is a string, never a native
\* datetime, also when the value was a ChatSession instance or a dict whose
\* messages are Message instances that hold datetimes.
C10_TimestampsAreStrings ==
    (m_last.op = "validate_sessions" /\ ~m_last.raised) =>
        /\ AllTimestampsStr(m_current_session)
        /\ \A k \in DOMAIN m_sessions : AllTimestampsStr(m_sessions[k])

\* ===================================================================
\* Claims about a send of src/mesop-chat/app.py
\* ===================================================================

SendFailed(kind) == kind \in {"backend_error", "error_event", "exception"}

\* C7: whenever a send fails (the backend reports an error or an exception is
\* raised), the in-progress assistant message is removed, the error is
\* recorded in error_message, and the messages before it and the title of the
\* session are what they were.
C7_FailedSendRollsBack ==
    [][(m_pc = "calling" /\ m_pc' = "idle" /\ SendFailed(m_last'.arg)) =>
          /\ m_current_session'.messages =
                 SubSeq(m_current_session.messages, 1, Len(m_current_session.messages) - 1)
          /\ m_error_message' # ""
          /\ m_current_session'.title = m_current_session.title]_vars

\* ===================================================================
\* Claims about the normaliser as a function
\* ===================================================================

\* the values the state holds: the inputs of ensure_chatsession
HeldValues == {m_current_session} \cup Values(m_sessions)

\* C11: for every value x the state holds (a ChatSession, a dict, None) that
\* ensure_chatsession accepts, ensure_chatsession of ensure_chatsession(x) is
\* ensure_chatsession(x) itself: same id, title, timestamps, correlation id
\* and messages, whatever uuid the second call would draw.
C11_NormaliseIdempotent ==
    \A x \in HeldValues :
        LET fid == FreshId(Current)
            foid == FreshOid(Current)
            once == ensure_chatsession(x, fid, foid) IN
        ~once.raised =>
            ensure_chatsession(once.val, fid + 1, foid + 1) = [raised |-> FALSE, val |-> once.val]

\* the client sent a dict with messages as current session and None as a
\* stored value
C11_Witness ==
    /\ m_last.op = "receive"
    /\ m_current_session.k = "dict"
    /\ Len(m_current_session.messages) = 2
    /\ \E k \in DOMAIN m_sessions : m_sessions[k] = OtherValue

\* ===================================================================
\* Claims about the outcome of a send of src/mesop-chat/app.py
\* ===================================================================

\* the send that was accepted last has just ended with the outcome kind
SendEnded(kind) == m_last.op = "process_message_async" /\ m_last.arg = kind

\* C12: after a successful send of prompt p through the direct adapter on a
\* fresh session (no messages, default title), the session holds exactly two
\* messages, (user, p) and (assistant, r, not in progress) with r the text the
\* backend returned, and its title is p when p has at most 50 characters.
C12_DirectSendOnFreshSession ==
    (SendEnded("ok") /\ ~m_sent.sdk /\ m_sent.n = 0 /\ m_sent.title = DefaultTitle) =>
        /\ Len(m_current_session.messages) = 2
        /\ m_current_session.messages[1] = Message("user", m_sent.prompt, FALSE)
        /\ \E run \in ApiRuns :
              /\ run.raises = "" /\ run.events # <<>>
              /\ m_current_session.messages[2] =
                     Message("assistant", run.events[1].result, FALSE)
        /\ (m_sent.prompt.len <= TitleLimit => m_current_session.title = m_sent.prompt)

C12_Witness ==
    /\ SendEnded("ok") /\ ~m_sent.sdk /\ m_sent.n = 0 /\ m_sent.title = DefaultTitle
    /\ m_sent.prompt = Text("hello", 5)
    /\ m_current_session.title = Text("hello", 5)
    /\ m_current_session.messages[2].content = Text("hi there", 8)

\* the error attribute of the result messages flagged is_error
EventError == "error"

\* C13: when the stream the SDK adapter consumed held a result message
\* flagged is_error with error text e, the send leaves an assistant message
\* whose content starts with the error marker ("Erro: " followed by e), and
\* error_message equals e.
C13_ErrorEventReported ==
    SendEnded("error_event") =>
        LET n == Len(m_current_session.messages) IN
        /\ n > 0
        /\ m_current_session.messages[n].role = "assistant"
        /\ m_current_session.messages[n].content = Text("Erro: error", 11)
        /\ m_error_message = EventError

\* the run with every message given in the shape sh ("obj" or "dict"), its
\* fields the same
Reshaped(run, sh) ==
    [run EXCEPT !.events = [i \in 1..Len(run.events) |-> [run.events[i] EXCEPT !.shape = sh]]]

\* C14: for the stream of every SDK send, call_claude_code_sdk extracts the
\* same response text and metadata (token count, correlation id, error flag)
\* whether the messages are objects or dicts with the same fields, also for
\* a message with subtype success whose token count is nested in usage.
C14_ShapesAgree ==
    (m_last.op = "process_message_async" /\ m_sent.sdk /\ m_run # NoRun) =>
        call_claude_code_sdk(Reshaped(m_run, "obj")) = call_claude_code_sdk(Reshaped(m_run, "dict"))

\* ===================================================================
\* Claims about the choice of the adapter
\* ===================================================================

\* C15: the adapter of a send is chosen by use_claude_sdk alone: when the
\* chosen adapter fails, call_claude reports the failure to handle_send and
\* the other adapter is not invoked in that send.
C15_NoAdapterFallback ==
    mn_call.failed =>
        /\ mn_call.raised
        /\ mn_call.invoked \subseteq (IF MainUseClaudeSdk THEN {"sdk"} ELSE {"api"})

\* ===================================================================
\* Claims about what process_message reports
\* ===================================================================

\* C16: when the circuit breaker has rejected a call without invoking the
\* operation, what process_message reports for that exception differs from
\* what it reports for a backend failure (ClaudeAPIError) and for an
\* unexpected error.
C16_RejectionReportedDistinctly ==
    (pc = "done" /\ obs.call.rejections > 0 /\ obs.call.funcCalls = 0
        /\ outcome = Raised(BreakerOpenError)) =>
        process_message_reports(outcome.exc) \notin
            {process_message_reports(ClaudeAPIError)}
            \cup {process_message_reports(OpError(t)) : t \in ErrTags}

\* ===================================================================
\* Claims about handle_new_chat
\* ===================================================================

\* C17: handle_new_chat adds exactly one session to the store, whatever the
\* store was, the empty store included; the added session is the current
\* one, has no messages and the default title; every ChatSession stored
\* before is still stored under its key with its id and its messages.
C17_NewChatAddsOne ==
    [][handle_new_chat =>
          /\ Cardinality(DOMAIN m_sessions') = Cardinality(DOMAIN m_sessions) + 1
          /\ m_current_session'.id \in DOMAIN m_sessions' \ DOMAIN m_sessions
          /\ m_sessions'[m_current_session'.id] = m_current_session'
          /\ m_current_session'.messages = <<>>
          /\ m_current_session'.title = DefaultTitle
          /\ \A k \in DOMAIN m_sessions :
                m_sessions[k].k = "obj" =>
                    /\ k \in DOMAIN m_sessions'
                    /\ m_sessions'[k].id = m_sessions[k].id
                    /\ m_sessions'[k].messages = m_sessions[k].messages]_vars

\* ===================================================================
\* Claims about the course of a send
\* ===================================================================

NoneInProgress(v) == \A i \in 1..Len(v.messages) : ~v.messages[i].in_progress

\* C18: every accepted send terminates, even when the backend never
\* responds: the page gets back to rest with the loading flag false and no
\* message of the current session in progress.
C18_SendTerminates ==
    (m_pc = "calling") ~> (m_pc = "idle" /\ ~m_is_loading /\ NoneInProgress(m_current_session))

InProgress(v) == {i \in 1..Len(v.messages) : v.messages[i].in_progress}

C20_PlaceholderBeforeCall ==
    m_pc = "calling" =>
        LET ms == m_current_session.messages
            n == Len(ms) IN
        /\ n = m_sent.n + 2
        /\ ms[n - 1] = Message("user", m_prompt, FALSE)
        /\ ms[n] = Message("assistant", EmptyText, TRUE)
        /\ m_prompt = m_sent.prompt

\* a send on a session that already held a conversation is about to call
\* the backend
C20_Witness ==
    /\ m_pc = "calling"
    /\ m_prompt = Text("hello", 5)
    /\ Len(m_current_session.messages) = 4
    /\ m_current_session.messages[4].in_progress

IsPrefix(s, t) == Len(s) <= Len(t) /\ SubSeq(t, 1, Len(s)) = s

\* C21: when a send returns (with a reply, with an error text or through the
\* except branch) the processing steps are empty and the loading flag is
\* false; when the backend is called the steps are those of the operations
\* started, in their order; while the send runs no step removes steps one by
\* one: the list is extended or emptied.
C21_StepsClearedAtEnd ==
    [][/\ process_message_async => (m_processing_steps' = <<>> /\ ~m_is_loading')
       /\ m_pc' = "calling" => m_processing_steps' = <<"inicio", IF m_use_claude_sdk' THEN "sdk" ELSE "api">>
       /\ m_pc = "calling" =>
             (m_processing_steps' = <<>> \/ IsPrefix(m_processing_steps, m_processing_steps'))]_vars

\* a send that called the backend has returned
C21_Witness ==
    /\ m_last.op = "process_message_async"
    /\ m_last.arg \in {"ok", "error_event", "backend_error", "exception"}
    /\ m_processing_steps = <<>>
    /\ ~m_is_loading
    /\ m_pc = "idle"

\* the content of the first user message of a session, if it has one
UserMessages(v) == {i \in 1..Len(v.messages) : v.messages[i].role = "user"}
TitleFromFirstUserMessage(v) ==
    /\ UserMessages(v) # {}
    /\ v.title = TitleOf(v.messages[Min(UserMessages(v))].content)

\* C22: the title a send leaves on the current session is the default or the
\* truncation (first 50 characters, an ellipsis when longer) of the content
\* of the session's first user message; a send changes the title only when
\* its reply completed successfully, and never changes a title already set.
C22_TitleFromFirstReply ==
    [][process_message_async =>
          /\ m_sent.title = DefaultTitle =>
                (m_current_session'.title = DefaultTitle \/ TitleFromFirstUserMessage(m_current_session'))
          /\ m_current_session'.title # m_current_session.title =>
                (m_last'.arg = "ok" /\ m_current_session.title = DefaultTitle)]_vars

\* ===================================================================
\* Claims about the correlation id and the history sent to the backend
\* ===================================================================

\* C23: a streaming send whose result carries a session id c leaves c on the
\* session; a streaming send on a session that holds an id c hands c to the
\* backend call, so that the backend resumes the exchange; a send through the
\* direct adapter leaves the id of the session as it was.
C23_CorrelationIdResumes ==
    /\ (m_last.op = "process_message_async" /\ m_sent.sdk /\ m_run # NoRun
           /\ call_claude_code_sdk(m_run).session_id # 0) =>
          m_current_session.claude_session_id = call_claude_code_sdk(m_run).session_id
    /\ (m_last.op = "process_message_async" /\ ~m_sent.sdk) =>
          m_current_session.claude_session_id = m_sent.session_id
    /\ (m_pc = "calling" /\ m_sent.sdk /\ m_sent.session_id # 0) =>
          query_options(m_sent.prompt, m_sent.session_id).resume = m_sent.session_id

\* main_new.py:167  state.current_session.messages[-10:]: the number of
\* messages of the history the direct branch of call_claude keeps
HistoryLimit == 10

IsSuffix(s, t) == Len(s) <= Len(t) /\ SubSeq(t, Len(t) - Len(s) + 1, Len(t)) = s

\* C24: the list the direct adapter sends is the history the session had
\* before the send, restricted to its most recent turns (HistoryLimit turns
\* at most, a turn being a user message and its reply), followed by the new
\* prompt once; it holds no message without content and no second copy of
\* the new user message.
C24_HistoryThenPromptOnce ==
    (m_pc = "calling" /\ ~m_use_claude_sdk) =>
        LET sent == api_messages(m_prompt, messages_list(m_current_session))
            n == Len(sent)
            before == WithContent(SubSeq(m_current_session.messages, 1, m_sent.n)) IN
        /\ sent[n] = ApiMessage("user", m_prompt)
        /\ IsSuffix(SubSeq(sent, 1, n - 1), before)
        /\ \A i \in 1..n : sent[i].content.len > 0
        /\ n - 1 <= 2 * HistoryLimit

\* ===================================================================
\* Claims about the improved app's decorated call
\* ===================================================================

\* C25: in the improved app, when the backend query of a send has failed, the
\* decorated call_claude_code_sdk of that send was attempted
\* 1 + max_retries = 4 times by the retry wrapper, and the breaker has counted
\* the failure.
C25_FailingQueryRetried ==
    (cfg = "improved" /\ sends = 1 /\ obs.failedQueries > 0) =>
        /\ obs.call.funcCalls = ImprovedMaxRetries + 1
        /\ failures >= 1

\* ===================================================================
\* Claims about the breaker's counter
\* ===================================================================

\* C26: a call of the wrapped operation that succeeds, with the breaker
\* CLOSED or as the probe after recovery_timeout, leaves the failure counter
\* at zero and the breaker CLOSED; the breaker is OPEN only after
\* failure_threshold failures of the operation with no success between them.
C26_SuccessResets ==
    cfg = "breaker" =>
        /\ (pc = "done" /\ outcome = Value) => (failures = 0 /\ ~circuit_open)
        /\ circuit_open => obs.consec >= failure_threshold

\* failures short of the threshold, then a success: the count is back to zero
C26_Witness ==
    /\ cfg = "breaker" /\ pc = "done" /\ outcome = Value
    /\ failure_threshold = 3
    /\ last_failure_time # NoTime
    /\ ~obs.call.probe
    /\ failures = 0 /\ ~circuit_open

\* ===================================================================
\* Claims about the keys of the session store and about the current session
\* ===================================================================

\* C27: after validate_sessions and after every create, select and send that
\* did not raise, every key k of the session store maps to a session whose id
\* is k, also when the stored value was a dict without an id or with an id
\* other than its key; no two keys map to sessions with the same id.
C27_KeysAreIds ==
    (m_last.op \in {"validate_sessions", "handle_new_chat", "load_session",
                    "handle_send_message", "process_message_async"} /\ ~m_last.raised) =>
        /\ \A k \in DOMAIN m_sessions : m_sessions[k].id = k
        /\ \A k1, k2 \in DOMAIN m_sessions :
              m_sessions[k1].id = m_sessions[k2].id => k1 = k2

C29_RejectionsKeepTimer ==
    [][cfg = "breaker" =>
          /\ obs'.call.rejections > obs.call.rejections =>
                 (failures' = failures /\ last_failure_time' = last_failure_time
                    /\ circuit_open' = circuit_open)
          /\ (pc = "b_check" /\ circuit_open /\ pc' # pc
                  /\ now - last_failure_time > recovery_timeout) =>
                 (pc' = "f_call" /\ ~circuit_open' /\ obs'.call.rejections = 0)]_vars

\* a call was rejected, the recorded failure time is still that of the
\* failure that opened the breaker
C29_Witness ==
    /\ cfg = "breaker" /\ pc = "done" /\ recovery_timeout = 2
    /\ obs.call.rejections = 1
    /\ circuit_open
    /\ last_failure_time = obs.openedAt
    /\ now - last_failure_time = 2

\* ===================================================================
\* Claims about the improved app's message list
\* ===================================================================

RECURSIVE WithValidContent(_)
WithValidContent(ms) ==
    IF ms = <<>> THEN <<>>
    ELSE (IF ValidContent(Head(ms).content) THEN <<Head(ms)>> ELSE <<>>)
         \o WithValidContent(Tail(ms))

\* C30: in the improved app the list stored with set_messages_list and read
\* back with get_messages_list holds the role and the content of every
\* message with content, in the same order: once process_message has stored
\* its list with the user message, the stored list is that list, ending with
\* the user-role message that holds the prompt.
C30_StoredListKeepsRoles ==
    (cfg = "improved" /\ running # 0 /\ tasks[running].st = "calling") =>
        LET n == Len(current_session_messages) IN
        /\ current_session_messages = WithValidContent(tasks[running].local)
        /\ n > 0
        /\ current_session_messages[n] = Msg("user", tasks[running].prompt)

====
